---- MODULE Spec2Model ----
(***************************************************************************)
(* claude-dash: the configuration readers of src/claude_dash/config.py     *)
(* (find_claude_md, find_mcp_config, find_skills, load_config) and the     *)
(* dashboard of src/claude_dash/app.py that displays their snapshot.       *)
(*                                                                         *)
(* Text is a sequence of one-character strings (a few multi-character      *)
(* atoms stand for an interpolated path or exception message); the text of *)
(* a file is what read_text() returns for it.  A path is its string;       *)
(* Optional values are records [some, s].  A JSON document is the value    *)
(* json.loads gives for it, or the marker that json.loads raises.          *)
(***************************************************************************)
EXTENDS Integers, Sequences, FiniteSets, TLC

VARIABLES
    mdFiles,      \* filesystem: state of the three CLAUDE.md candidates
    mcpFiles,     \* filesystem: state of the seven registry candidates
    skillRoots,   \* filesystem: state of the three skill roots
    pc,           \* position of the caller of load_config
    claude_md,    \* load_config local: (claude_md_path, claude_md_content)
    mcp,          \* load_config local: (mcp_config_path, mcp_servers), with the files read
    skills,       \* load_config local: skills
    outcome,      \* "pending", "returned" or "raised"
    config,       \* the ClaudeConfig returned (App.config in the dashboard)
    side,         \* SidePanel: mounted flag, its config, collapsed class
    detail        \* DetailPanel.content

vars == <<mdFiles, mcpFiles, skillRoots, pc, claude_md, mcp, skills, outcome,
          config, side, detail>>

fsVars == <<mdFiles, mcpFiles, skillRoots>>

(***************************************************************************)
(* Bounds of the explored inputs.                                          *)
(***************************************************************************)
MaxEntries == 2     \* entries of a server map
MaxArgs == 3        \* length of an args list
MaxLines == 3       \* lines of a SKILL.md
MaxItems == 3       \* directory items over all skill roots

(***************************************************************************)
(* Text helpers.                                                           *)
(***************************************************************************)
None == [some |-> FALSE, s |-> <<>>]
Some(s) == [some |-> TRUE, s |-> s]
NoPath == "None"

RECURSIVE Join(_, _)
\* sep.join(parts)
Join(parts, sep) ==
    IF parts = <<>> THEN <<>>
    ELSE IF Len(parts) = 1 THEN parts[1]
    ELSE parts[1] \o sep \o Join(Tail(parts), sep)

Whitespace == {" ", "\t", "\n", "\r"}

RECURSIVE LStrip(_)
LStrip(s) == IF s # <<>> /\ Head(s) \in Whitespace THEN LStrip(Tail(s)) ELSE s

RECURSIVE RStrip(_)
RStrip(s) ==
    IF s # <<>> /\ s[Len(s)] \in Whitespace THEN RStrip(SubSeq(s, 1, Len(s) - 1)) ELSE s

\* str.strip()
Strip(s) == RStrip(LStrip(s))

\* str.startswith(c) for a one-character prefix
StartsWith(s, c) == s # <<>> /\ Head(s) = c

\* s[:n]
Prefix(s, n) == SubSeq(s, 1, IF Len(s) < n THEN Len(s) ELSE n)

\* the index of the first "\n" of s, or 0
FirstNewline(s) ==
    IF \E i \in 1..Len(s) : s[i] = "\n"
    THEN CHOOSE i \in 1..Len(s) : s[i] = "\n" /\ \A j \in 1..(i - 1) : s[j] # "\n"
    ELSE 0

RECURSIVE SplitLines(_)
\* content.split("\n")
SplitLines(s) ==
    IF FirstNewline(s) = 0 THEN <<s>>
    ELSE <<SubSeq(s, 1, FirstNewline(s) - 1)>>
         \o SplitLines(SubSeq(s, FirstNewline(s) + 1, Len(s)))

(***************************************************************************)
(* find_claude_md                                                          *)
(***************************************************************************)
MdCandidates == <<"<root>/CLAUDE.md", "<root>/.claude/CLAUDE.md", "<root>/claude.md">>

\* path.exists(): a file, a directory or anything else that can be stat'ed
Exists(f) == f.kind # "absent"

\* f"[Error reading {path}]"
ErrorReading(path) == <<"[", "Error reading ", path, "]">>

\* faulty variant: an unreadable candidate is passed over too
MdPassedOverUnreadable(files, i) == ~Exists(files[i]) \/ files[i].kind = "unreadable"

\* the loop test of find_claude_md: a candidate that does not exist is passed over
MdPassedOver(files, i) == ~Exists(files[i])

RECURSIVE FindClaudeMdFrom(_, _)
FindClaudeMdFrom(files, i) ==
    IF i > Len(MdCandidates) THEN [path |-> NoPath, content |-> <<>>]
    ELSE IF MdPassedOver(files, i) THEN FindClaudeMdFrom(files, i + 1)
    ELSE IF files[i].kind = "text"
         THEN [path |-> MdCandidates[i], content |-> files[i].text]
         ELSE [path |-> MdCandidates[i], content |-> ErrorReading(MdCandidates[i])]

find_claude_md(files) == FindClaudeMdFrom(files, 1)

(***************************************************************************)
(* find_mcp_config                                                         *)
(***************************************************************************)
McpCandidates ==
    << "<root>/.claude/mcp.json", "<root>/mcp.json", "<root>/.mcp.json",
       "<root>/config/mcp.json", "<root>/config/mcporter.json",
       "~/.config/claude/mcp.json", "~/.claude/mcp.json" >>

\* MCPServer(name=..., command=..., url=..., status=...)
MCPServer(name, command, url, status) ==
    [name |-> name, command |-> command, url |-> url, tools_count |-> None,
     status |-> status]

\* MCPServer(name=f"[Error: {e}]", status="error")
ErrorServer(e) == MCPServer(<<"[", "Error: ", e, "]">>, None, None, "error")

\* dict.get(key, default) on a JSON object (a function from its keys)
Get(obj, key, default) == IF key \in DOMAIN obj THEN obj[key] ELSE default

\* the {} default of data.get("servers", {})
EmptyDict == [t |-> "dict", items |-> <<>>]

\* faulty variant: args are concatenated without separators
CommandWithArgsNoSpace(cfg) ==
    Some((IF cfg.command.some THEN cfg.command.s ELSE <<>>) \o Join(cfg.args.s, <<>>))

\* f"{config.get('command', '')} {' '.join(config.get('args', []))}"
CommandWithArgs(cfg) ==
    Some((IF cfg.command.some THEN cfg.command.s ELSE <<>>) \o <<" ">>
         \o Join(cfg.args.s, <<" ">>))

\* faulty variant: a server is created with the dataclass default status
ServerStatusDefault == "unknown"

\* the status given to a server built from a per-entry object
ServerStatus == "configured"

\* the server built from one (name, config) item whose config is a dict
ServerOf(name, cfg) ==
    MCPServer(name,
              IF cfg.args.some THEN CommandWithArgs(cfg) ELSE cfg.command,
              cfg.url,
              ServerStatus)

\* whether building the server of a config raises: config.get on a non-dict
\* (AttributeError), or ' '.join of args that are not a sequence of strings
\* (TypeError)
EntryRaises(cfg) ==
    IF cfg.t # "dict" THEN "AttributeError"
    ELSE IF cfg.args.some /\ cfg.args.bad THEN "TypeError"
    ELSE "no"

RECURSIVE ParseItems(_, _)
\* for name, config in mcp_servers.items(): ... servers.append(server)
ParseItems(items, servers) ==
    IF items = <<>> THEN [raised |-> "no", servers |-> servers]
    ELSE IF EntryRaises(Head(items).config) # "no"
         THEN [raised |-> EntryRaises(Head(items).config), servers |-> servers]
         ELSE ParseItems(Tail(items),
                         Append(servers, ServerOf(Head(items).name, Head(items).config)))

\* faulty variant: servers is consulted whenever mcpServers holds no entries
ServerMapFirstPopulated(obj) ==
    IF "mcpServers" \in DOMAIN obj /\ obj["mcpServers"].items # <<>>
    THEN obj["mcpServers"]
    ELSE Get(obj, "servers", EmptyDict)

\* data.get("mcpServers", data.get("servers", {}))
ServerMap(obj) == Get(obj, "mcpServers", Get(obj, "servers", EmptyDict))

\* the body of the try block for the matched file, and its except clause
ParseMatched(f) ==
    IF f.kind # "text" THEN <<ErrorServer("OSError")>>
    ELSE IF f.data.t = "syntax" THEN <<ErrorServer("JSONDecodeError")>>
    ELSE IF f.data.t # "object" THEN <<ErrorServer("AttributeError")>>
    ELSE LET mcp_servers == ServerMap(f.data.obj) IN
         IF mcp_servers.t # "dict" THEN <<>>
         ELSE LET r == ParseItems(mcp_servers.items, <<>>) IN
              IF r.raised = "no" THEN r.servers
              ELSE Append(r.servers, ErrorServer(r.raised))

\* faulty variant: the loop goes on after a matched file that gave no servers
StopsAtIfServers(files, i, servers) == servers # <<>>

\* the break statements: the loop ends at the first candidate that exists
StopsAt(files, i, servers) == TRUE

RECURSIVE FindMcpFrom(_, _, _)
FindMcpFrom(files, i, acc) ==
    IF i > Len(McpCandidates) THEN acc
    ELSE IF ~Exists(files[i]) THEN FindMcpFrom(files, i + 1, acc)
    ELSE LET got == [config_path |-> McpCandidates[i],
                     servers |-> acc.servers \o ParseMatched(files[i]),
                     reads |-> acc.reads \cup {i}]
         IN IF StopsAt(files, i, got.servers) THEN got
            ELSE FindMcpFrom(files, i + 1, got)

find_mcp_config(files) ==
    FindMcpFrom(files, 1, [config_path |-> NoPath, servers |-> <<>>, reads |-> {}])

(***************************************************************************)
(* find_skills                                                             *)
(***************************************************************************)
SkillDirs == <<"<root>/skills", "<root>/.claude/skills", "/opt/clawdbot/skills">>

\* line.strip()[:100]
DescLimit == 100

\* Skill(name=..., description=..., location=...)
Skill(name, description, location) ==
    [name |-> name, description |-> description, location |-> location]

\* faulty variant: the heading test is made on the stripped line
IsHeadingStripped(line) == StartsWith(Strip(line), "#")

\* line.startswith("#")
IsHeading(line) == StartsWith(line, "#")

\* line.strip()[:100]
DescriptionOfLine(line) == Prefix(Strip(line), DescLimit)

RECURSIVE FirstDescription(_)
\* for line in lines: if line.strip() and not line.startswith("#"): ...; break
FirstDescription(lines) ==
    IF lines = <<>> THEN <<>>
    ELSE IF Strip(Head(lines)) # <<>> /\ ~IsHeading(Head(lines))
         THEN DescriptionOfLine(Head(lines))
         ELSE FirstDescription(Tail(lines))

\* the description of a bundle: "" unless SKILL.md exists and can be read
Description(md) ==
    IF md.kind = "text" THEN FirstDescription(SplitLines(md.text)) ELSE <<>>

\* str(skill_md if skill_md.exists() else item)
Location(root, item) ==
    IF Exists(item.md) THEN <<SkillDirs[root], "/", item.name, "/", "SKILL.md">>
    ELSE <<SkillDirs[root], "/", item.name>>

\* faulty variant: a bundle is only reported when it has a SKILL.md
IsBundleWithMd(item) == item.kind = "dir" /\ Exists(item.md)

\* item.is_dir()
IsBundle(item) == item.kind = "dir"

RECURSIVE ScanItems(_, _, _)
\* for item in skill_dir.iterdir(): ...
ScanItems(root, items, acc) ==
    IF items = <<>> THEN acc
    ELSE ScanItems(root, Tail(items),
                   IF IsBundle(Head(items))
                   THEN Append(acc, Skill(Head(items).name, Description(Head(items).md),
                                          Location(root, Head(items))))
                   ELSE acc)

RECURSIVE ScanRoots(_, _, _)
\* for skill_dir in skill_dirs: if skill_dir.exists() and skill_dir.is_dir(): ...
\* iterdir() of a directory that cannot be listed raises, outside any try
ScanRoots(roots, r, acc) ==
    IF r > Len(SkillDirs) THEN [raised |-> FALSE, skills |-> acc]
    ELSE IF roots[r].kind = "unlistable" THEN [raised |-> TRUE, skills |-> acc]
    ELSE IF roots[r].kind = "dir" THEN ScanRoots(roots, r + 1, ScanItems(r, roots[r].items, acc))
    ELSE ScanRoots(roots, r + 1, acc)

find_skills(roots) == ScanRoots(roots, 1, <<>>)

(***************************************************************************)
(* load_config                                                             *)
(***************************************************************************)
\* ClaudeConfig(workspace=..., ...)
ClaudeConfig(md, reg, sk) ==
    [workspace |-> "<root>",
     claude_md_path |-> md.path,
     claude_md_content |-> md.content,
     claude_md_exists |-> md.path # NoPath,
     mcp_servers |-> reg.servers,
     skills |-> sk.skills,
     mcp_config_path |-> reg.config_path]

\* the field defaults of the ClaudeConfig dataclass
DefaultConfig ==
    [workspace |-> "<root>", claude_md_path |-> NoPath, claude_md_content |-> <<>>,
     claude_md_exists |-> FALSE, mcp_servers |-> <<>>, skills |-> <<>>,
     mcp_config_path |-> NoPath]

\* load_config: the three locators in turn, then the snapshot; an exception of a
\* locator leaves load_config
load_config(md, reg, roots) ==
    LET m == find_claude_md(md)
        c == find_mcp_config(reg)
        s == find_skills(roots)
    IN [raised |-> s.raised, claude_md |-> m, mcp |-> c, skills |-> s.skills,
        config |-> IF s.raised THEN DefaultConfig ELSE ClaudeConfig(m, c, s)]

(***************************************************************************)
(* Filesystem contents the locators are run on.                            *)
(***************************************************************************)
AbsentMd == [kind |-> "absent", text |-> <<>>]
UnreadableMd == [kind |-> "unreadable", text |-> <<>>]
TextMd(t) == [kind |-> "text", text |-> t]

NoData == [t |-> "none", obj |-> <<>>]
AbsentReg == [kind |-> "absent", data |-> NoData]
UnreadableReg == [kind |-> "unreadable", data |-> NoData]
SyntaxReg == [kind |-> "text", data |-> [t |-> "syntax", obj |-> <<>>]]
ScalarReg == [kind |-> "text", data |-> [t |-> "scalar", obj |-> <<>>]]
ObjectReg(o) == [kind |-> "text", data |-> [t |-> "object", obj |-> o]]

ScalarValue == [t |-> "scalar", items |-> <<>>]
Dict(items) == [t |-> "dict", items |-> items]

NoArgs == [some |-> FALSE, bad |-> FALSE, s |-> <<>>]
BadArgs == [some |-> TRUE, bad |-> TRUE, s |-> <<>>]
Args(a) == [some |-> TRUE, bad |-> FALSE, s |-> a]
ScalarEntry == [t |-> "scalar", command |-> None, url |-> None, args |-> NoArgs]
Entry(command, url, args) == [t |-> "dict", command |-> command, url |-> url, args |-> args]
Item(name, cfg) == [name |-> name, config |-> cfg]

\* sequences over S of length at most n
SeqsUpTo(S, n) == UNION {[1..k -> S] : k \in 0..n}

\* sequences of items with pairwise distinct names (the keys of a JSON object)
DistinctNames(items) ==
    \A i, j \in 1..Len(items) : items[i].name = items[j].name => i = j

Node == <<"n", "o", "d", "e">>
Url == <<"h", ":", "/", "/", "x">>

AbsentRegs == [i \in 1..Len(McpCandidates) |-> AbsentReg]
AbsentMds == [i \in 1..Len(MdCandidates) |-> AbsentMd]
AbsentRoot == [kind |-> "absent", items |-> <<>>]
AbsentRoots == [r \in 1..Len(SkillDirs) |-> AbsentRoot]

(***************************************************************************)
(* The call of load_config.                                                *)
(***************************************************************************)
NoMcp == [config_path |-> NoPath, servers |-> <<>>, reads |-> {}]
NoMd == [path |-> NoPath, content |-> <<>>]
NoSide == [mounted |-> FALSE, config |-> DefaultConfig, collapsed |-> FALSE]
NoDetail == [view |-> "none", text |-> <<>>, found |-> FALSE, servers |-> 0, skills |-> 0]

\* the state before load_config is called on the filesystem
Pending ==
    /\ pc = "start"
    /\ claude_md = NoMd
    /\ mcp = NoMcp
    /\ skills = <<>>
    /\ outcome = "pending"
    /\ config = DefaultConfig
    /\ side = NoSide
    /\ detail = NoDetail

\* load_config(workspace): returns the snapshot, or is left by an exception
LoadConfig ==
    /\ pc = "start"
    /\ LET r == load_config(mdFiles, mcpFiles, skillRoots) IN
        /\ claude_md' = r.claude_md
        /\ mcp' = r.mcp
        /\ skills' = r.skills
        /\ outcome' = IF r.raised THEN "raised" ELSE "returned"
        /\ config' = r.config
    /\ pc' = "done"
    /\ UNCHANGED <<fsVars, side, detail>>

NextLoad == LoadConfig

(***************************************************************************)
(* SpecMd: find_claude_md on every state of its three candidates.          *)
(***************************************************************************)
MdTexts == {<<>>, <<"h", "i">>, <<"#", " ", "T", "\n", "b", "y", "e", "\n">>}
MdStates == {AbsentMd, UnreadableMd} \cup {TextMd(t) : t \in MdTexts}

InitMd ==
    /\ mdFiles \in [1..Len(MdCandidates) -> MdStates]
    /\ mcpFiles = AbsentRegs
    /\ skillRoots = AbsentRoots
    /\ Pending

SpecMd == InitMd /\ [][NextLoad]_vars

(***************************************************************************)
(* SpecPrecedence: find_mcp_config on every combination of present and     *)
(* absent candidates; the entry of candidate i carries the name ServerName[i]. *)
(***************************************************************************)
ServerName == <<"s1", "s2", "s3", "s4", "s5", "s6", "s7">>

OneServerReg(i) ==
    ObjectReg([k \in {"mcpServers"} |->
                  Dict(<<Item(<<ServerName[i]>>, Entry(Some(Node), None, NoArgs))>>)])

EmptyObjectReg == ObjectReg([k \in {"mcpServers"} |-> Dict(<<>>)])

PrecedenceKinds == {"absent", "unreadable", "syntax", "empty", "one"}

PrecedenceFile(kind, i) ==
    CASE kind = "absent" -> AbsentReg
      [] kind = "unreadable" -> UnreadableReg
      [] kind = "syntax" -> SyntaxReg
      [] kind = "empty" -> EmptyObjectReg
      [] kind = "one" -> OneServerReg(i)

InitPrecedence ==
    /\ mdFiles = AbsentMds
    /\ \E kinds \in [1..Len(McpCandidates) -> PrecedenceKinds] :
           mcpFiles = [i \in 1..Len(McpCandidates) |-> PrecedenceFile(kinds[i], i)]
    /\ skillRoots = AbsentRoots
    /\ Pending

SpecPrecedence == InitPrecedence /\ [][NextLoad]_vars

(***************************************************************************)
(* Claims on find_claude_md (SpecMd).                                      *)
(***************************************************************************)
\* candidate i of files is the first one that exists
FirstExisting(files, i) ==
    /\ Exists(files[i])
    /\ \A j \in 1..(i - 1) : ~Exists(files[j])

NoneExists(files) == \A i \in DOMAIN files : ~Exists(files[i])

Bracketed(s) == Len(s) >= 2 /\ s[1] = "[" /\ s[Len(s)] = "]"

\* C4: find_claude_md returns the first candidate that exists, in the order
\* CLAUDE.md, .claude/CLAUDE.md, claude.md: with its exact text when it can be
\* read, with a bracketed error string (and no lower candidate tried) when it
\* cannot, and an absent path with empty content when no candidate exists; the
\* snapshot's claude_md_exists is true exactly when the returned path is present.
C4_FirstExistingDocument ==
    pc = "done" =>
        /\ \A i \in 1..Len(MdCandidates) :
              FirstExisting(mdFiles, i) =>
                  /\ claude_md.path = MdCandidates[i]
                  /\ mdFiles[i].kind = "text" => claude_md.content = mdFiles[i].text
                  /\ mdFiles[i].kind # "text" =>
                        /\ Bracketed(claude_md.content)
                        /\ MdCandidates[i] \in {claude_md.content[k] :
                                                   k \in 1..Len(claude_md.content)}
        /\ NoneExists(mdFiles) => claude_md.path = NoPath /\ claude_md.content = <<>>
        /\ outcome = "returned" =>
              /\ config.claude_md_path = claude_md.path
              /\ config.claude_md_content = claude_md.content
              /\ config.claude_md_exists <=> (claude_md.path # NoPath)

\* C4 witness: the first candidate is absent, the second cannot be read and the
\* third is readable; the second is returned with the error string.
C4_Witness ==
    /\ pc = "done"
    /\ mdFiles[1].kind = "absent"
    /\ mdFiles[2].kind = "unreadable"
    /\ mdFiles[3].kind = "text" /\ mdFiles[3].text # <<>>
    /\ claude_md.path = MdCandidates[2]
    /\ config.claude_md_exists

(***************************************************************************)
(* Claims on the precedence of find_mcp_config (SpecPrecedence).           *)
(***************************************************************************)
\* the entries the file of candidate i declares
DeclaredBy(i) ==
    IF mcpFiles[i] = OneServerReg(i)
    THEN {MCPServer(<<ServerName[i]>>, Some(Node), None, "configured")}
    ELSE {}

\* C1: find_mcp_config reads only the first registry candidate that exists: the
\* config path is that candidate, every configured entry is one that file
\* declares, no other candidate is read (also when the matched file is malformed,
\* unreadable or declares nothing), and the path is absent with an empty entry
\* list exactly when no candidate exists.
C1_FirstExistingRegistryOnly ==
    pc = "done" =>
        /\ \A i \in 1..Len(McpCandidates) :
              FirstExisting(mcpFiles, i) =>
                  /\ mcp.config_path = McpCandidates[i]
                  /\ mcp.reads = {i}
                  /\ \A k \in 1..Len(mcp.servers) :
                        mcp.servers[k].status = "configured" =>
                            mcp.servers[k] \in DeclaredBy(i)
                  /\ \A sv \in DeclaredBy(i) :
                        \E k \in 1..Len(mcp.servers) : mcp.servers[k] = sv
                  /\ Len(mcp.servers) <= 1
        /\ NoneExists(mcpFiles) <=> (mcp.config_path = NoPath)
        /\ NoneExists(mcpFiles) => mcp.servers = <<>> /\ mcp.reads = {}
        /\ config.mcp_config_path = mcp.config_path
        /\ config.mcp_servers = mcp.servers

\* C1 witness: the second candidate is the first that exists and declares no
\* entries, while lower candidates declare servers.
C1_Witness ==
    /\ pc = "done"
    /\ mcpFiles[1] = AbsentReg
    /\ mcpFiles[2] = EmptyObjectReg
    /\ mcpFiles[3] = OneServerReg(3)
    /\ mcpFiles[7] = OneServerReg(7)
    /\ mcp.config_path = McpCandidates[2]
    /\ mcp.servers = <<>>

(***************************************************************************)
(* SpecShape: find_mcp_config on one registry file of every shape: not     *)
(* readable, not JSON, not an object, and objects holding mcpServers,      *)
(* servers, both or neither, with well- and ill-formed entries.            *)
(***************************************************************************)
ShapeNames == {<<"a">>, <<"b">>, <<"c">>}

ShapeEntries ==
    { ScalarEntry,
      Entry(None, None, NoArgs),
      Entry(Some(Node), None, NoArgs),
      Entry(None, Some(Url), NoArgs),
      Entry(Some(Node), None, BadArgs),
      Entry(Some(Node), None, Args(<< <<"x">> >>)) }

ShapeItems == {Item(n, e) : n \in ShapeNames, e \in ShapeEntries}

RichMaps ==
    {ScalarValue} \cup
    {Dict(items) : items \in {q \in SeqsUpTo(ShapeItems, MaxEntries) : DistinctNames(q)}}

SimpleMaps ==
    { ScalarValue, Dict(<<>>), Dict(<<Item(<<"z">>, Entry(Some(Node), None, NoArgs))>>) }

OnlyMcpServers(m) == [k \in {"mcpServers"} |-> m]
OnlyServers(m) == [k \in {"servers"} |-> m]
Both(m, n) == [k \in {"mcpServers", "servers"} |-> IF k = "mcpServers" THEN m ELSE n]

ShapeFiles ==
    {UnreadableReg, SyntaxReg, ScalarReg, ObjectReg(<<>>)}
    \cup {ObjectReg(OnlyMcpServers(m)) : m \in RichMaps}
    \cup {ObjectReg(OnlyServers(m)) : m \in RichMaps}
    \cup {ObjectReg(Both(m, n)) : m \in RichMaps, n \in SimpleMaps}
    \cup {ObjectReg(Both(n, m)) : m \in RichMaps, n \in SimpleMaps}

InitShape ==
    /\ mdFiles = AbsentMds
    /\ \E i \in 1..Len(McpCandidates), f \in ShapeFiles :
           mcpFiles = [AbsentRegs EXCEPT ![i] = f]
    /\ skillRoots = AbsentRoots
    /\ Pending

SpecShape == InitShape /\ [][NextLoad]_vars

(***************************************************************************)
(* Claims on the parsing of the matched registry file (SpecShape).         *)
(***************************************************************************)
\* the file of the matched candidate (SpecShape has at most one that exists)
Matched == CHOOSE i \in 1..Len(McpCandidates) : FirstExisting(mcpFiles, i)
SomeMatched == \E i \in 1..Len(McpCandidates) : FirstExisting(mcpFiles, i)

HasScalarEntry(m) == \E k \in 1..Len(m.items) : m.items[k].config.t = "scalar"

\* a server map of the wrong shape: not an object, or holding a non-object entry
MapInvalid(m) == m.t = "scalar" \/ HasScalarEntry(m)

\* a structurally invalid registry file: invalid JSON, a non-object top level, or
\* a server map of the wrong shape under its alias
StructurallyInvalid(f) ==
    /\ f.kind = "text"
    /\ \/ f.data.t \in {"syntax", "scalar"}
       \/ /\ f.data.t = "object"
          /\ DOMAIN f.data.obj = {"mcpServers"}
          /\ MapInvalid(f.data.obj["mcpServers"])
       \/ /\ f.data.t = "object"
          /\ DOMAIN f.data.obj = {"servers"}
          /\ MapInvalid(f.data.obj["servers"])

\* C2 (as claimed): a structurally invalid matched registry file gives exactly
\* one entry, of status error, and no configured entry beside it.
C2_InvalidFileSingleError ==
    (pc = "done" /\ SomeMatched /\ StructurallyInvalid(mcpFiles[Matched])) =>
        /\ Len(mcp.servers) = 1
        /\ mcp.servers[1].status = "error"

\* the entries find_mcp_config gives for a file that holds map m under one alias
ServersOfMap(m) == ParseMatched(ObjectReg(OnlyServers(m)))

Populated(m) == m.t = "dict" /\ m.items # <<>>

\* C5 (as claimed): with both mcpServers and servers present the first populated
\* alias wins: mcpServers if it is populated, otherwise servers.
C5_FirstPopulatedAliasWins ==
    (pc = "done" /\ SomeMatched /\ mcpFiles[Matched].data.t = "object"
        /\ DOMAIN mcpFiles[Matched].data.obj = {"mcpServers", "servers"}) =>
        LET obj == mcpFiles[Matched].data.obj IN
        mcp.servers = IF Populated(obj["mcpServers"])
                      THEN ServersOfMap(obj["mcpServers"])
                      ELSE ServersOfMap(obj["servers"])

\* C5 (amended): the first alias present in the file wins: the entries are those
\* of mcpServers whenever that key is present, populated or not, and those of
\* servers only when mcpServers is absent; a file with an empty mcpServers map
\* and a non-empty servers map yields no entries.
C5_FirstPresentAliasWins ==
    (pc = "done" /\ SomeMatched /\ mcpFiles[Matched].data.t = "object") =>
        LET obj == mcpFiles[Matched].data.obj IN
        mcp.servers = IF "mcpServers" \in DOMAIN obj THEN ServersOfMap(obj["mcpServers"])
                      ELSE IF "servers" \in DOMAIN obj THEN ServersOfMap(obj["servers"])
                      ELSE <<>>

\* C5 witness: mcpServers is present and empty, servers declares an entry, and
\* the result has no entries.
C5_Witness ==
    /\ pc = "done"
    /\ SomeMatched
    /\ mcpFiles[Matched].data.t = "object"
    /\ DOMAIN mcpFiles[Matched].data.obj = {"mcpServers", "servers"}
    /\ mcpFiles[Matched].data.obj["mcpServers"] = Dict(<<>>)
    /\ Populated(mcpFiles[Matched].data.obj["servers"])
    /\ mcp.servers = <<>>

\* the items of the server map in force: that of mcpServers when the key is
\* present, else that of servers
ItemsInForce(f) ==
    IF f.kind # "text" \/ f.data.t # "object" THEN <<>>
    ELSE IF "mcpServers" \in DOMAIN f.data.obj THEN f.data.obj["mcpServers"].items
    ELSE IF "servers" \in DOMAIN f.data.obj THEN f.data.obj["servers"].items
    ELSE <<>>

\* C10: in every snapshot load_config produces, each entry has status configured
\* or error, never unknown; an error entry has the bracketed error description as
\* its name and neither command nor url; an entry built from a per-entry object
\* has status configured and the object's key as its name; a non-empty entry
\* list implies that the config path is present.
C10_EntryStatusInvariant ==
    (pc = "done" /\ outcome = "returned") =>
        LET sv == config.mcp_servers
            items == IF SomeMatched THEN ItemsInForce(mcpFiles[Matched]) ELSE <<>>
        IN /\ \A k \in 1..Len(sv) :
                 /\ sv[k].status \in {"configured", "error"}
                 /\ sv[k].status = "error" =>
                       /\ Bracketed(sv[k].name)
                       /\ sv[k].name[2] = "Error: "
                       /\ sv[k].command = None
                       /\ sv[k].url = None
                       /\ k = Len(sv)
                 /\ sv[k].status = "configured" =>
                       /\ k <= Len(items)
                       /\ items[k].config.t = "dict"
                       /\ sv[k].name = items[k].name
           /\ \A k \in 1..Len(items) :
                 (\A j \in 1..k : EntryRaises(items[j].config) = "no") =>
                     /\ k <= Len(sv)
                     /\ sv[k].status = "configured"
                     /\ sv[k].name = items[k].name
           /\ sv # <<>> => config.mcp_config_path # NoPath

\* C10 witness: a snapshot whose entry list holds a configured entry named by
\* its key followed by an error entry.
C10_Witness ==
    /\ pc = "done"
    /\ outcome = "returned"
    /\ Len(config.mcp_servers) = 2
    /\ config.mcp_servers[1].status = "configured"
    /\ config.mcp_servers[1].name = <<"b">>
    /\ config.mcp_servers[2].status = "error"
    /\ config.mcp_config_path = McpCandidates[5]

(***************************************************************************)
(* SpecArgs: find_mcp_config on a registry file whose entry supplies every *)
(* combination of command, url and an args list of up to MaxArgs strings.  *)
(***************************************************************************)
ServerJs == <<"s", "e", "r", "v", "e", "r", ".", "j", "s">>
PortFlag == <<"-", "-", "p", "o", "r", "t">>
Three == <<"3">>
ArgTokens == {ServerJs, PortFlag, Three}

ArgEntries ==
    {Entry(c, u, a) : c \in {None, Some(Node)}, u \in {None, Some(Url)},
                      a \in {NoArgs} \cup {Args(q) : q \in SeqsUpTo(ArgTokens, MaxArgs)}}

ArgMaps ==
    {Dict(<<Item(<<"a">>, e)>>) : e \in ArgEntries}
    \cup {Dict(<<Item(<<"b">>, Entry(Some(Node), None, NoArgs)), Item(<<"a">>, e)>>) :
             e \in ArgEntries}

ArgFiles ==
    {ObjectReg(OnlyMcpServers(m)) : m \in ArgMaps}
    \cup {ObjectReg(OnlyServers(m)) : m \in ArgMaps}

InitArgs ==
    /\ mdFiles = AbsentMds
    /\ \E i \in 1..Len(McpCandidates), f \in ArgFiles :
           mcpFiles = [AbsentRegs EXCEPT ![i] = f]
    /\ skillRoots = AbsentRoots
    /\ Pending

SpecArgs == InitArgs /\ [][NextLoad]_vars

(***************************************************************************)
(* Claim on the displayed command (SpecArgs).                              *)
(***************************************************************************)
RECURSIVE SumLen(_)
SumLen(parts) == IF parts = <<>> THEN 0 ELSE Len(Head(parts)) + SumLen(Tail(parts))

\* where part k of parts starts in their single-space joining, less one
Offset(parts, k) == SumLen(SubSeq(parts, 1, k - 1)) + (k - 1)

\* s is the parts in order, each two neighbours separated by exactly one space
SpaceJoined(s, parts) ==
    /\ Len(s) = IF parts = <<>> THEN 0 ELSE SumLen(parts) + Len(parts) - 1
    /\ \A k \in 1..Len(parts) :
          /\ SubSeq(s, Offset(parts, k) + 1, Offset(parts, k) + Len(parts[k])) = parts[k]
          /\ k > 1 => s[Offset(parts, k)] = " "

NodeServerJsPort3 ==
    << "n", "o", "d", "e", " ", "s", "e", "r", "v", "e", "r", ".", "j", "s", " ",
       "-", "-", "p", "o", "r", "t", " ", "3" >>

\* C7: for every per-entry object of the matched file, when args is present the
\* entry's command is the command string, a single space, and the args joined
\* by single spaces (command node with args server.js, --port, 3 gives
\* "node server.js --port 3"); when args is absent it is the object's command
\* unchanged (absent when not supplied); the url is copied unchanged.
C7_CommandWithArgs ==
    (pc = "done" /\ SomeMatched) =>
        LET items == ItemsInForce(mcpFiles[Matched]) IN
        /\ Len(mcp.servers) = Len(items)
        /\ \A k \in 1..Len(items) :
              LET cfg == items[k].config
                  sv == mcp.servers[k]
                  cmd == IF cfg.command.some THEN cfg.command.s ELSE <<>>
              IN /\ sv.url = cfg.url
                 /\ ~cfg.args.some => sv.command = cfg.command
                 /\ cfg.args.some =>
                       /\ sv.command.some
                       /\ Len(sv.command.s) > Len(cmd)
                       /\ SubSeq(sv.command.s, 1, Len(cmd)) = cmd
                       /\ sv.command.s[Len(cmd) + 1] = " "
                       /\ SpaceJoined(SubSeq(sv.command.s, Len(cmd) + 2, Len(sv.command.s)),
                                      cfg.args.s)
                 /\ (cfg.command = Some(Node)
                        /\ cfg.args = Args(<<ServerJs, PortFlag, Three>>)) =>
                       sv.command = Some(NodeServerJsPort3)

\* C7 witness: the entry {"command": "node", "args": ["server.js", "--port",
\* "3"]} has been read and its command is "node server.js --port 3".
C7_Witness ==
    /\ pc = "done"
    /\ \E k \in 1..Len(mcp.servers) :
          /\ mcp.servers[k].command = Some(NodeServerJsPort3)
          /\ mcp.servers[k].status = "configured"
          /\ ItemsInForce(mcpFiles[Matched])[k].config.args
                = Args(<<ServerJs, PortFlag, Three>>)

(***************************************************************************)
(* SpecDesc: find_skills on one bundle whose SKILL.md holds up to MaxLines *)
(* lines: blank, headings, indented headings, text to trim, over-long text.*)
(***************************************************************************)
FileRoot == [kind |-> "file", items |-> <<>>]
UnlistableRoot == [kind |-> "unlistable", items |-> <<>>]
DirRoot(items) == [kind |-> "dir", items |-> items]
FileItem(name) == [name |-> name, kind |-> "file", md |-> AbsentMd]
Bundle(name, md) == [name |-> name, kind |-> "dir", md |-> md]

\* a line of DescLimit + 1 letters after one blank
LongLine == <<" ">> \o [k \in 1..(DescLimit + 1) |-> "x"]

LineKinds ==
    { <<>>,
      <<" ", "\t">>,
      <<"#", " ", "T">>,
      <<" ", " ", "#", " ", "T">>,
      <<"a", " ", "b">>,
      <<"\t", "a", "b", " ", " ">>,
      LongLine }

SkillTexts == {Join(lines, <<"\n">>) : lines \in SeqsUpTo(LineKinds, MaxLines)}

InitDesc ==
    /\ mdFiles = AbsentMds
    /\ mcpFiles = AbsentRegs
    /\ \E r \in 1..Len(SkillDirs),
          md \in {AbsentMd, UnreadableMd} \cup {TextMd(t) : t \in SkillTexts} :
           skillRoots = [AbsentRoots EXCEPT ![r] = DirRoot(<<Bundle("a", md)>>)]
    /\ Pending

SpecDesc == InitDesc /\ [][NextLoad]_vars

(***************************************************************************)
(* Claim on the description of a bundle (SpecDesc).                        *)
(***************************************************************************)
SetMin(S) == CHOOSE x \in S : \A y \in S : x <= y
SetMax(S) == CHOOSE x \in S : \A y \in S : x >= y

\* the positions that bound the lines of text: 0, each newline, Len(text) + 1
Breaks(text) == {0, Len(text) + 1} \cup {i \in 1..Len(text) : text[i] = "\n"}

\* the line of text that starts after break b
LineAfter(text, b) ==
    SubSeq(text, b + 1, SetMin({e \in Breaks(text) : e > b}) - 1)

\* line without its leading and trailing whitespace
Trimmed(line) ==
    LET black == {i \in 1..Len(line) : line[i] \notin Whitespace} IN
    IF black = {} THEN <<>> ELSE SubSeq(line, SetMin(black), SetMax(black))

\* the description read as "the first line that is non-empty after trimming and
\* for which Skipped does not hold, trimmed, cut to DescLimit characters"
DescriptionBy(text, Skipped(_)) ==
    LET starts == {b \in Breaks(text) \ {Len(text) + 1} :
                      /\ Trimmed(LineAfter(text, b)) # <<>>
                      /\ ~Skipped(LineAfter(text, b))}
    IN IF starts = {} THEN <<>>
       ELSE LET t == Trimmed(LineAfter(text, SetMin(starts))) IN
            SubSeq(t, 1, IF Len(t) > DescLimit THEN DescLimit ELSE Len(t))

\* the one bundle of SpecDesc and the skill reported for it
TheBundle == LET r == CHOOSE r \in 1..Len(SkillDirs) : skillRoots[r].kind = "dir"
             IN skillRoots[r].items[1]

\* C8 (as claimed): a heading preceded by whitespace is skipped like any other
\* heading: the description is the first line that is non-empty after trimming
\* and whose trimmed text does not begin with #, trimmed, cut to 100 characters.
C8_IndentedHeadingSkipped ==
    (pc = "done" /\ TheBundle.md.kind = "text") =>
        /\ Len(skills) = 1
        /\ skills[1].description =
              DescriptionBy(TheBundle.md.text,
                            LAMBDA line : Trimmed(line) # <<>> /\ Trimmed(line)[1] = "#")

\* C8 (amended): for every readable SKILL.md the description is the first line
\* that is non-empty after trimming and does not itself begin with #, trimmed
\* and cut to at most 100 characters, and empty when there is no such line; a
\* heading preceded by whitespace is not skipped but taken as the description;
\* the description never exceeds 100 characters.
C8_FirstPlainLine ==
    (pc = "done" /\ TheBundle.md.kind = "text") =>
        /\ Len(skills) = 1
        /\ skills[1].description =
              DescriptionBy(TheBundle.md.text,
                            LAMBDA line : line # <<>> /\ line[1] = "#")
        /\ Len(skills[1].description) <= DescLimit

\* C8 witness: SKILL.md starts with a blank line and a heading preceded by
\* whitespace, and the description is that heading.
C8_Witness ==
    /\ pc = "done"
    /\ TheBundle.md = TextMd(<<"\n", " ", " ", "#", " ", "T", "\n", "a", " ", "b">>)
    /\ skills[1].description = <<"#", " ", "T">>

\* a second witness of C8: an over-long line is cut to 100 characters
C8_WitnessCut ==
    /\ pc = "done"
    /\ TheBundle.md.kind = "text"
    /\ TheBundle.md.text = <<"#", " ", "T", "\n">> \o LongLine
    /\ Len(skills[1].description) = DescLimit

(***************************************************************************)
(* SpecSkills: find_skills on up to MaxItems directory items spread over   *)
(* the three roots, each root absent, a file, unlistable or a directory.   *)
(***************************************************************************)
SkillNames == {"a", "b"}
DoesX == <<"D", "o", "e", "s", " ", "x", ".">>

SkillItems ==
    {FileItem(n) : n \in SkillNames}
    \cup {Bundle(n, md) : n \in SkillNames, md \in {AbsentMd, UnreadableMd, TextMd(DoesX)}}

RootKinds == {"absent", "file", "unlistable", "dir"}

\* the items of directory r: those of items that place assigns to it, in order
ItemsOf(items, place, r) ==
    LET at == {k \in 1..Len(items) : place[k] = r}
        nth[n \in 1..Cardinality(at)] ==
            CHOOSE k \in at : Cardinality({j \in at : j < k}) = n - 1
    IN [n \in 1..Cardinality(at) |-> items[nth[n]]]

InitSkills ==
    /\ mdFiles = AbsentMds
    /\ mcpFiles = AbsentRegs
    /\ \E kinds \in [1..Len(SkillDirs) -> RootKinds], n \in 0..MaxItems :
         \E place \in [1..n -> {r \in 1..Len(SkillDirs) : kinds[r] = "dir"}] :
           /\ \A k \in 1..(n - 1) : place[k] <= place[k + 1]
           /\ \E items \in [1..n -> SkillItems] :
                /\ \A j, k \in 1..n :
                      (place[j] = place[k] /\ items[j].name = items[k].name) => j = k
                /\ skillRoots = [r \in 1..Len(SkillDirs) |->
                                    [kind |-> kinds[r],
                                     items |-> IF kinds[r] = "dir"
                                               THEN ItemsOf(items, place, r) ELSE <<>>]]
    /\ Pending

SpecSkills == InitSkills /\ [][NextLoad]_vars

(***************************************************************************)
(* Claim on the bundles found (SpecSkills).                                *)
(***************************************************************************)
\* the subdirectories of root r, in directory order, when r is a directory
SubdirsOf(r) ==
    IF skillRoots[r].kind = "dir"
    THEN SelectSeq([k \in 1..Len(skillRoots[r].items) |->
                       [root |-> r, item |-> skillRoots[r].items[k]]],
                   LAMBDA x : x.item.kind = "dir")
    ELSE <<>>

AllSubdirs == SubdirsOf(1) \o SubdirsOf(2) \o SubdirsOf(3)

\* C9: find_skills returns exactly one bundle per immediate subdirectory of each
\* existing scanned root, concatenated in root order, with no deduplication of
\* names across roots and no bundle for items that are not directories; a
\* subdirectory without SKILL.md, or whose SKILL.md cannot be read, yields a
\* bundle named after the directory with an empty description; the location is
\* the bundle directory when SKILL.md is absent and the SKILL.md path otherwise.
C9_OneBundlePerSubdirectory ==
    (pc = "done" /\ outcome = "returned") =>
        /\ Len(skills) = Len(AllSubdirs)
        /\ config.skills = skills
        /\ \A k \in 1..Len(AllSubdirs) :
              LET item == AllSubdirs[k].item
                  dir == <<SkillDirs[AllSubdirs[k].root], "/", item.name>>
              IN /\ skills[k].name = item.name
                 /\ item.md.kind \in {"absent", "unreadable"} => skills[k].description = <<>>
                 /\ item.md.kind = "text" => skills[k].description = DoesX
                 /\ item.md.kind = "absent" => skills[k].location = dir
                 /\ item.md.kind # "absent" =>
                       skills[k].location = dir \o <<"/", "SKILL.md">>

\* C9 witness: two roots each hold a subdirectory named a, the first without
\* SKILL.md, beside an item that is not a directory; two bundles named a are
\* returned.
C9_Witness ==
    /\ pc = "done"
    /\ outcome = "returned"
    /\ skillRoots[1] = DirRoot(<<FileItem("b"), Bundle("a", AbsentMd)>>)
    /\ skillRoots[2] = AbsentRoot
    /\ skillRoots[3] = DirRoot(<<Bundle("a", UnreadableMd)>>)
    /\ Len(skills) = 2
    /\ skills[1].name = "a" /\ skills[2].name = "a"
    /\ skills[1].location = <<"<root>/skills", "/", "a">>
    /\ skills[2].location = <<"/opt/clawdbot/skills", "/", "a", "/", "SKILL.md">>

(***************************************************************************)
(* SpecLoad: load_config with all three facets present, absent or failing. *)
(***************************************************************************)
LoadMdStates == {AbsentMd, UnreadableMd, TextMd(<<"h", "i">>)}
LoadRegStates == {AbsentReg, UnreadableReg, SyntaxReg, OneServerReg(1)}
LoadRootStates ==
    { AbsentRoot, FileRoot, UnlistableRoot,
      DirRoot(<<Bundle("a", TextMd(DoesX))>>),
      DirRoot(<<FileItem("b"), Bundle("a", UnreadableMd)>>) }

InitLoad ==
    /\ mdFiles \in [1..Len(MdCandidates) -> LoadMdStates]
    /\ \E f \in LoadRegStates : mcpFiles = [AbsentRegs EXCEPT ![1] = f]
    /\ \E r1 \in LoadRootStates, r3 \in {AbsentRoot, UnlistableRoot} :
           skillRoots = [AbsentRoots EXCEPT ![1] = r1, ![3] = r3]
    /\ Pending

SpecLoad == InitLoad /\ [][NextLoad]_vars

(***************************************************************************)
(* Claim on load_config (SpecLoad).                                        *)
(***************************************************************************)
\* C3 (as claimed): load_config never raises: on every filesystem state,
\* a skills root whose enumeration fails included, it returns a complete
\* ClaudeConfig, and the document and registry facets are what their locators
\* give whatever happens in the skills facet.
C3_LoadConfigNeverRaises ==
    pc = "done" =>
        /\ outcome = "returned"
        /\ config.claude_md_path = find_claude_md(mdFiles).path
        /\ config.claude_md_content = find_claude_md(mdFiles).content
        /\ config.mcp_config_path = find_mcp_config(mcpFiles).config_path
        /\ config.mcp_servers = find_mcp_config(mcpFiles).servers

(***************************************************************************)
(* The dashboard (app.py): ClaudeDash holds the snapshot in self.config,   *)
(* SidePanel is given it when composed, DetailPanel.content is set by the  *)
(* show_* methods.  The files change under the running dashboard.          *)
(***************************************************************************)
\* show_claude_md: detail.content = self.config.claude_md_content
ClaudeMdView(cfg) ==
    [view |-> "claude_md", text |-> cfg.claude_md_content, found |-> FALSE,
     servers |-> 0, skills |-> 0]

\* show_welcome: the welcome text with the workspace, the CLAUDE.md status and
\* the numbers of servers and skills of self.config
WelcomeView(cfg) ==
    [view |-> "welcome", text |-> <<cfg.workspace>>, found |-> cfg.claude_md_exists,
     servers |-> Len(cfg.mcp_servers), skills |-> Len(cfg.skills)]

\* if self.config.claude_md_exists: self.show_claude_md() else: self.show_welcome()
StartView(cfg) == IF cfg.claude_md_exists THEN ClaudeMdView(cfg) ELSE WelcomeView(cfg)

\* the workspaces the dashboard is run on
AppFs ==
    { [md |-> AbsentMds, reg |-> AbsentRegs, roots |-> AbsentRoots],
      [md |-> [AbsentMds EXCEPT ![1] = TextMd(<<"h", "i">>)],
       reg |-> [AbsentRegs EXCEPT ![2] = OneServerReg(2)],
       roots |-> [AbsentRoots EXCEPT ![1] = DirRoot(<<Bundle("a", TextMd(DoesX))>>)]],
      [md |-> [AbsentMds EXCEPT ![3] = TextMd(<<"b", "y", "e">>)],
       reg |-> [AbsentRegs EXCEPT ![2] = SyntaxReg],
       roots |-> AbsentRoots],
      [md |-> [AbsentMds EXCEPT ![1] = TextMd(<<"h", "i">>)],
       reg |-> AbsentRegs,
       roots |-> [AbsentRoots EXCEPT ![2] = UnlistableRoot]] }

\* ClaudeDash.__init__: self.config = load_config(self.workspace)
InitApp ==
    /\ \E fs \in AppFs :
          /\ mdFiles = fs.md /\ mcpFiles = fs.reg /\ skillRoots = fs.roots
          /\ ~load_config(fs.md, fs.reg, fs.roots).raised
          /\ config = load_config(fs.md, fs.reg, fs.roots).config
    /\ pc = "constructed"
    /\ claude_md = NoMd
    /\ mcp = NoMcp
    /\ skills = <<>>
    /\ outcome = "returned"
    /\ side = NoSide
    /\ detail = NoDetail

appIdle == <<claude_md, mcp, skills, outcome>>

\* ClaudeDash.compose: yield SidePanel(self.config, ...); yield DetailPanel(...)
Compose ==
    /\ pc = "constructed"
    /\ side' = [mounted |-> TRUE, config |-> config, collapsed |-> FALSE]
    /\ pc' = "composed"
    /\ UNCHANGED <<fsVars, appIdle, config, detail>>

\* ClaudeDash.on_mount
OnMount ==
    /\ pc = "composed"
    /\ detail' = StartView(config)
    /\ pc' = "running"
    /\ UNCHANGED <<fsVars, appIdle, config, side>>

\* ClaudeDash.action_refresh: self.config is rebound to a new snapshot and the
\* detail panel is shown again; an exception of load_config ends the handler
ActionRefresh ==
    /\ pc = "running"
    /\ LET r == load_config(mdFiles, mcpFiles, skillRoots) IN
         IF r.raised
         THEN pc' = "crashed" /\ UNCHANGED <<config, detail>>
         ELSE /\ config' = r.config
              /\ detail' = StartView(r.config)
              /\ pc' = pc
    /\ UNCHANGED <<fsVars, appIdle, side>>

\* ClaudeDash.action_help
ActionHelp ==
    /\ pc = "running"
    /\ detail' = WelcomeView(config)
    /\ UNCHANGED <<fsVars, appIdle, pc, config, side>>

\* ClaudeDash.on_button_pressed: the button btn-claude-md exists when the side
\* panel was composed from a snapshot with a CLAUDE.md
OnButtonPressed ==
    /\ pc = "running"
    /\ side.config.claude_md_exists
    /\ detail' = ClaudeMdView(config)
    /\ UNCHANGED <<fsVars, appIdle, pc, config, side>>

\* ClaudeDash.action_toggle_sidebar
ActionToggleSidebar ==
    /\ pc = "running"
    /\ side' = [side EXCEPT !.collapsed = ~side.collapsed]
    /\ UNCHANGED <<fsVars, appIdle, pc, config, detail>>

\* ClaudeDash.action_edit_claude_md: leaves the dashboard for the editor
ActionEditClaudeMd ==
    /\ pc = "running"
    /\ config.claude_md_path # NoPath
    /\ pc' = "exited"
    /\ UNCHANGED <<fsVars, appIdle, config, side, detail>>

\* the quit binding
ActionQuit ==
    /\ pc = "running"
    /\ pc' = "exited"
    /\ UNCHANGED <<fsVars, appIdle, config, side, detail>>

\* the user's files change while the dashboard runs
FilesChange ==
    /\ pc = "running"
    /\ \E fs \in AppFs :
          /\ mdFiles' = fs.md /\ mcpFiles' = fs.reg /\ skillRoots' = fs.roots
    /\ UNCHANGED <<appIdle, pc, config, side, detail>>

NextApp ==
    \/ Compose
    \/ OnMount
    \/ ActionRefresh
    \/ ActionHelp
    \/ OnButtonPressed
    \/ ActionToggleSidebar
    \/ ActionEditClaudeMd
    \/ ActionQuit
    \/ FilesChange

SpecApp == InitApp /\ [][NextApp]_vars

(***************************************************************************)
(* Claim on the dashboard (SpecApp).                                       *)
(***************************************************************************)
\* C6 (as claimed): after any sequence of refresh actions every presentation
\* component reads the most recently loaded snapshot: the side panel is never
\* left on an earlier snapshot while the detail panel shows the new one.
C6_PanelsShowLatestSnapshot ==
    pc = "running" =>
        /\ detail \in {ClaudeMdView(config), WelcomeView(config)}
        /\ side.config = config

\* the default specification: the dashboard
Spec == SpecApp

====
